---------------------------- MODULE Spec2Model ----------------------------
(***************************************************************************)
(* GitSight (GitHub-Profile-Analyzer): the scoring and aggregation         *)
(* pipeline of src/src/analyzer.py and src/src/scoring.py.                 *)
(*                                                                         *)
(* Python computes the weighted sums with binary64 floats and truncates    *)
(* them with int().  The model keeps that arithmetic: a float is a sign, a *)
(* mantissa of at most 53 bits and a binary exponent, every operation is   *)
(* the exact result rounded to nearest, ties to even.  Mantissas do not    *)
(* fit the integers of the model checker, so they are kept as little-      *)
(* endian sequences of 15-bit limbs.                                       *)
(*                                                                         *)
(* Specifications:                                                         *)
(*   Spec          analyze_profile over the repositories get_repos yields  *)
(*   SpecLabels    _get_rating_label and the tier ladder                   *)
(*   SpecComposite _calculate_composite                                    *)
(*   SpecScoring   compute_hiring_readiness and compute_role_fit           *)
(*   SpecTesting   _analyze_testing before and after a tests directory     *)
(*   SpecClone     _analyze_readme, _analyze_complexity_python and         *)
(*                 _analyze_sec_deploy on the clone of one repository      *)
(***************************************************************************)
EXTENDS Integers, Sequences, FiniteSets, TLC

(***************************************************************************)
(* Natural numbers of arbitrary size: little-endian limbs, no leading      *)
(* zero limb, zero is the empty sequence.                                  *)
(***************************************************************************)
LimbBits == 15

Base == 2 ^ LimbBits

Abs(n) == IF n < 0 THEN -n ELSE n

Min(a, b) == IF a <= b THEN a ELSE b

Max(a, b) == IF a >= b THEN a ELSE b

RECURSIVE BTrim(_)
BTrim(a) ==
    IF a = <<>> THEN a
    ELSE IF a[Len(a)] = 0 THEN BTrim(SubSeq(a, 1, Len(a) - 1)) ELSE a

RECURSIVE BFromInt(_)
BFromInt(n) == IF n = 0 THEN <<>> ELSE <<n % Base>> \o BFromInt(n \div Base)

RECURSIVE BToInt(_)
BToInt(a) == IF a = <<>> THEN 0 ELSE a[1] + Base * BToInt(Tail(a))

Limb(a, i) == IF i <= Len(a) THEN a[i] ELSE 0

RECURSIVE BAddFrom(_, _, _, _)
BAddFrom(a, b, i, c) ==
    IF i > Len(a) /\ i > Len(b)
    THEN IF c = 0 THEN <<>> ELSE <<c>>
    ELSE LET x == Limb(a, i) + Limb(b, i) + c
         IN  <<x % Base>> \o BAddFrom(a, b, i + 1, x \div Base)

BAdd(a, b) == BAddFrom(a, b, 1, 0)

\* a - b for a >= b
RECURSIVE BSubFrom(_, _, _, _)
BSubFrom(a, b, i, c) ==
    IF i > Len(a) THEN <<>>
    ELSE LET x == Limb(a, i) - Limb(b, i) - c
         IN  IF x < 0 THEN <<x + Base>> \o BSubFrom(a, b, i + 1, 1)
                      ELSE <<x>> \o BSubFrom(a, b, i + 1, 0)

BSub(a, b) == BTrim(BSubFrom(a, b, 1, 0))

\* -1, 0, 1 as a < b, a = b, a > b
RECURSIVE BCmpFrom(_, _, _)
BCmpFrom(a, b, i) ==
    IF i = 0 THEN 0
    ELSE IF a[i] < b[i] THEN -1
    ELSE IF a[i] > b[i] THEN 1
    ELSE BCmpFrom(a, b, i - 1)

BCmp(a, b) ==
    IF Len(a) < Len(b) THEN -1
    ELSE IF Len(a) > Len(b) THEN 1
    ELSE BCmpFrom(a, b, Len(a))

\* a * k for 0 <= k <= Base
RECURSIVE BMulSmallFrom(_, _, _, _)
BMulSmallFrom(a, k, i, c) ==
    IF i > Len(a)
    THEN IF c = 0 THEN <<>> ELSE <<c>>
    ELSE LET x == a[i] * k + c
         IN  <<x % Base>> \o BMulSmallFrom(a, k, i + 1, x \div Base)

BMulSmall(a, k) == BTrim(BMulSmallFrom(a, k, 1, 0))

RECURSIVE BMulFrom(_, _, _)
BMulFrom(a, b, j) ==
    IF j > Len(b) THEN <<>>
    ELSE BAdd(BMulSmall(a, b[j]), <<0>> \o BMulFrom(a, b, j + 1))

BMul(a, b) == BTrim(BMulFrom(a, b, 1))

\* quotient and remainder of a by d, 0 < d <= Base, from the top limb down
RECURSIVE BDivSmallFrom(_, _, _, _)
BDivSmallFrom(a, d, i, r) ==
    IF i = 0 THEN [q |-> <<>>, r |-> r]
    ELSE LET x    == r * Base + a[i]
             rest == BDivSmallFrom(a, d, i - 1, x % d)
         IN  [q |-> rest.q \o <<x \div d>>, r |-> rest.r]

BDivSmall(a, d) ==
    LET res == BDivSmallFrom(a, d, Len(a), 0)
    IN  [q |-> BTrim(res.q), r |-> res.r]

Zeros(n) == [i \in 1..n |-> 0]

BShl(a, k) ==
    IF a = <<>> THEN a
    ELSE Zeros(k \div LimbBits) \o BMulSmall(a, 2 ^ (k % LimbBits))

BShr(a, k) ==
    IF k \div LimbBits >= Len(a) THEN <<>>
    ELSE BDivSmall(SubSeq(a, (k \div LimbBits) + 1, Len(a)),
                   2 ^ (k % LimbBits)).q

RECURSIVE IntBitLen(_)
IntBitLen(n) == IF n = 0 THEN 0 ELSE 1 + IntBitLen(n \div 2)

BBitLen(a) ==
    IF a = <<>> THEN 0 ELSE (Len(a) - 1) * LimbBits + IntBitLen(a[Len(a)])

BIsOdd(a) == a # <<>> /\ a[1] % 2 = 1

\* some of the k lowest bits of a is set
BLowBitsSet(a, k) ==
    \/ \E i \in 1..Min(Len(a), k \div LimbBits) : a[i] # 0
    \/ /\ (k \div LimbBits) + 1 <= Len(a)
       /\ a[(k \div LimbBits) + 1] % (2 ^ (k % LimbBits)) # 0

(***************************************************************************)
(* binary64 values: (-1)^neg * m * 2^e.  The exponent range is never left  *)
(* by the program's values (all lie between 2^-60 and 2^10 in magnitude),  *)
(* so there are no subnormals, infinities or NaN.                          *)
(***************************************************************************)
MantBits == 53

FZero == [neg |-> FALSE, m |-> <<>>, e |-> 0]

\* the exact value m * 2^e rounded to 53 significant bits, ties to even
FRound(neg, m, e) ==
    LET n == BBitLen(m) IN
    IF m = <<>> THEN FZero
    ELSE IF n <= MantBits THEN [neg |-> neg, m |-> m, e |-> e]
    ELSE LET sh     == n - MantBits
             q      == BShr(m, sh)
             guard  == BIsOdd(BShr(m, sh - 1))
             sticky == BLowBitsSet(m, sh - 1)
             up     == guard /\ (sticky \/ BIsOdd(q))
         IN  [neg |-> neg,
              m   |-> IF up THEN BAdd(q, <<1>>) ELSE q,
              e   |-> e + sh]

FFromInt(n) == [neg |-> n < 0, m |-> BFromInt(Abs(n)), e |-> 0]

FNeg(x) == IF x.m = <<>> THEN x ELSE [x EXCEPT !.neg = ~x.neg]

FAdd(x, y) ==
    IF x.m = <<>> THEN y
    ELSE IF y.m = <<>> THEN x
    ELSE LET e  == Min(x.e, y.e)
             mx == BShl(x.m, x.e - e)
             my == BShl(y.m, y.e - e)
         IN  IF x.neg = y.neg THEN FRound(x.neg, BAdd(mx, my), e)
             ELSE IF BCmp(mx, my) >= 0 THEN FRound(x.neg, BSub(mx, my), e)
             ELSE FRound(y.neg, BSub(my, mx), e)

FSub(x, y) == FAdd(x, FNeg(y))

FMul(x, y) == FRound(x.neg # y.neg, BMul(x.m, y.m), x.e + y.e)

\* a / b for Python ints, 0 < b <= Base: the quotient carried to more than
\* 55 bits, a set low bit standing for a non-zero remainder
DivShift == 75

FDivInt(a, b) ==
    IF a = 0 THEN FZero
    ELSE LET d == BDivSmall(BShl(BFromInt(Abs(a)), DivShift), b)
         IN  IF d.r = 0 THEN FRound(a < 0, d.q, -DivShift)
             ELSE FRound(a < 0, BAdd(BShl(d.q, 1), <<1>>), -DivShift - 1)

\* a decimal literal with two places, 0.35 as FLit(35)
FLit(hundredths) == FDivInt(hundredths, 100)

FIsPositive(x) == x.m # <<>> /\ ~x.neg

FLess(x, y) == FIsPositive(FSub(y, x))

\* int(x): truncation toward zero
FTrunc(x) ==
    LET mag == IF x.e >= 0 THEN BToInt(BShl(x.m, x.e))
               ELSE BToInt(BShr(x.m, -x.e))
    IN  IF x.neg THEN -mag ELSE mag


(***************************************************************************)
(* Python str values that the code searches (file names, paths, README     *)
(* text, descriptions) are sequences of one-character strings, so that     *)
(* lower(), in, startswith and endswith are computed and not looked up.    *)
(* Values that are only compared for equality (languages, labels) are      *)
(* plain strings.  None is a value of its own.                             *)
(***************************************************************************)
None == "None"

NoneStr == <<None>>

\* Python truth of an optional plain string and of an optional str
Truthy(v) == v # None /\ v # ""

TruthyStr(s) == s # NoneStr /\ s # <<>>

UpperCase == <<"A", "B", "C", "D", "E", "F", "G", "H", "I", "J", "K", "L", "M", "N", "O", "P", "Q", "R", "S", "T", "U", "V", "W", "X", "Y", "Z">>
LowerCase == <<"a", "b", "c", "d", "e", "f", "g", "h", "i", "j", "k", "l", "m", "n", "o", "p", "q", "r", "s", "t", "u", "v", "w", "x", "y", "z">>

LowerChar(c) ==
    IF \E i \in 1..Len(UpperCase) : UpperCase[i] = c
    THEN LowerCase[CHOOSE i \in 1..Len(UpperCase) : UpperCase[i] = c]
    ELSE c

Lower(s) == [i \in 1..Len(s) |-> LowerChar(s[i])]

\* sub in s
Contains(sub, s) ==
    \E i \in 1..(Len(s) - Len(sub) + 1) : SubSeq(s, i, i + Len(sub) - 1) = sub

StartsWith(s, pre) == Len(pre) <= Len(s) /\ SubSeq(s, 1, Len(pre)) = pre

EndsWith(s, suf) ==
    Len(suf) <= Len(s) /\ SubSeq(s, Len(s) - Len(suf) + 1, Len(s)) = suf

SeqToSet(s) == {s[i] : i \in 1..Len(s)}

RECURSIVE SumSeq(_)
SumSeq(s) == IF s = <<>> THEN 0 ELSE s[1] + SumSeq(Tail(s))

(***************************************************************************)
(* analyzer.py: composite score and rating of one repository               *)
(***************************************************************************)
BreakdownFields ==
    {"code_structure", "testing_ci", "readme", "project_value",
     "deployability", "complexity", "security"}

\* the fields in the order of the sum, each with its weight in hundredths
CompositeWeights ==
    <<[field |-> "code_structure", weight |-> 25],
      [field |-> "testing_ci", weight |-> 20],
      [field |-> "readme", weight |-> 15],
      [field |-> "project_value", weight |-> 15],
      [field |-> "deployability", weight |-> 10],
      [field |-> "complexity", weight |-> 8],
      [field |-> "security", weight |-> 7]>>

\* terms[1].value * terms[1].weight + ... + terms[n].value * terms[n].weight,
\* added from the left as Python evaluates the expression
RECURSIVE WeightedSum(_, _)
WeightedSum(terms, n) ==
    IF n = 1 THEN FMul(terms[1].value, FLit(terms[1].weight))
    ELSE FAdd(WeightedSum(terms, n - 1),
              FMul(terms[n].value, FLit(terms[n].weight)))

_calculate_composite(breakdown) ==
    LET terms == [i \in 1..Len(CompositeWeights) |->
                    [value  |-> FFromInt(breakdown[CompositeWeights[i].field]),
                     weight |-> CompositeWeights[i].weight]]
    IN  FTrunc(WeightedSum(terms, Len(terms)))

\* the labels of the source carry an emoji in front of the word; the model
\* keeps the word
_get_rating_label_strict(score) ==
    IF score > 85 THEN "Exceptional"
    ELSE IF score > 70 THEN "Strong"
    ELSE IF score > 55 THEN "Solid"
    ELSE IF score > 40 THEN "Needs Work"
    ELSE "Weak"

_get_rating_label(score) ==
    IF score >= 85 THEN "Exceptional"
    ELSE IF score >= 70 THEN "Strong"
    ELSE IF score >= 55 THEN "Solid"
    ELSE IF score >= 40 THEN "Needs Work"
    ELSE "Weak"

(***************************************************************************)
(* scoring.py: labels                                                      *)
(***************************************************************************)
get_fit_label_inclusive(score) ==
    IF score >= 80 THEN "High Fit"
    ELSE IF score >= 50 THEN "Moderate Fit"
    ELSE "Low Fit"

get_fit_label(score) ==
    IF score > 80 THEN "High Fit"
    ELSE IF score > 50 THEN "Moderate Fit"
    ELSE "Low Fit"

get_tier_label(tier) ==
    CASE tier = "Hire-Ready"  -> "Strong candidate; portfolio speaks for itself"
      [] tier = "Competitive" -> "Solid candidate; minor gaps to address"
      [] tier = "Developing"  -> "Promising; needs focused improvement in 2-3 areas"
      [] tier = "Early Stage" -> "Real potential; portfolio needs significant work"
      [] tier = "Not Ready"   -> "Foundational gaps; focus on fundamentals first"
      [] OTHER                -> ""

\* the tier ladder of compute_hiring_readiness
HiringTier(final_score) ==
    IF final_score >= 85 THEN "Hire-Ready"
    ELSE IF final_score >= 70 THEN "Competitive"
    ELSE IF final_score >= 55 THEN "Developing"
    ELSE IF final_score >= 40 THEN "Early Stage"
    ELSE "Not Ready"

(***************************************************************************)
(* scoring.py: hiring readiness                                            *)
(***************************************************************************)
load_languages(repos) ==
    {repos[i].language : i \in {j \in 1..Len(repos) : Truthy(repos[j].language)}}

\* sorted(scores, reverse=True)
RECURSIVE SortedDesc(_)
SortedDesc(s) ==
    IF s = <<>> THEN <<>>
    ELSE LET i == CHOOSE j \in 1..Len(s) : \A k \in 1..Len(s) : s[j] >= s[k]
         IN  <<s[i]>> \o SortedDesc(SubSeq(s, 1, i - 1) \o SubSeq(s, i + 1, Len(s)))

\* s[:n]
Take(s, n) == SubSeq(s, 1, Min(n, Len(s)))

\* sum(1 for r in repos if r["score_breakdown"][field] > 0)
CountPositive(repos, field) ==
    Cardinality({i \in 1..Len(repos) : repos[i].score_breakdown[field] > 0})

\* the loop of lines 43-46, before the floor at 0
RECURSIVE DeductFlags(_, _)
DeductFlags(repos, baseline) ==
    IF repos = <<>> THEN baseline
    ELSE DeductFlags(Tail(repos),
                     IF repos[1].critical_flags # <<>> THEN baseline - 20
                     ELSE baseline)

RECURSIVE DeductEachFlag(_, _)
DeductEachFlag(repos, baseline) ==
    IF repos = <<>> THEN baseline
    ELSE DeductEachFlag(Tail(repos),
                        baseline - 20 * Len(repos[1].critical_flags))

security_baseline_per_flag(repos) == Max(0, DeductEachFlag(repos, 100))

security_baseline(repos) == Max(0, DeductFlags(repos, 100))

\* the weighted sum of lines 23-59, before int()
\* (count of repositories with the field > 0) / len(repos) * 100
Presence(repos, field) ==
    FMul(FDivInt(CountPositive(repos, field), Len(repos)), FFromInt(100))

HiringScore(repos) ==
    LET repo_scores      == [i \in 1..Len(repos) |-> repos[i].composite_score]
        avg_repo_score   == FDivInt(SumSeq(repo_scores), Len(repo_scores))
        best_3           == Take(SortedDesc(repo_scores), 3)
        best_3_repos_avg == FDivInt(SumSeq(best_3), Len(best_3))
        langs            == load_languages(repos)
        portfolio_diversity == Min(100, Cardinality(langs) * 20)
        testing_ci_presence    == Presence(repos, "testing_ci")
        deployability_presence == Presence(repos, "deployability")
        terms ==
            <<[value |-> avg_repo_score, weight |-> 35],
              [value |-> best_3_repos_avg, weight |-> 25],
              [value |-> FFromInt(portfolio_diversity), weight |-> 15],
              [value |-> testing_ci_presence, weight |-> 10],
              [value |-> deployability_presence, weight |-> 10],
              [value |-> FFromInt(security_baseline(repos)), weight |-> 5]>>
    IN  WeightedSum(terms, Len(terms))

compute_hiring_readiness(repos) ==
    IF repos = <<>>
    THEN [score |-> 0, tier |-> "Not Ready",
          tier_label |-> "Foundational gaps; focus on fundamentals first"]
    ELSE LET final_score == FTrunc(HiringScore(repos))
             tier        == HiringTier(final_score)
         IN  [score |-> final_score, tier |-> tier,
              tier_label |-> get_tier_label(tier)]

(***************************************************************************)
(* scoring.py: role fit                                                    *)
(***************************************************************************)
ml_keywords ==
    <<
    <<"m", "o", "d", "e", "l">>, <<"t", "r", "a", "i", "n">>,
    <<"d", "a", "t", "a", "s", "e", "t">>, <<"j", "u", "p", "y", "t", "e", "r">>,
    <<"p", "a", "n", "d", "a", "s">>, <<"n", "u", "m", "p", "y">>,
    <<"s", "k", "l", "e", "a", "r", "n">>, <<"t", "e", "n", "s", "o", "r", "f", "l", "o", "w">>,
    <<"p", "y", "t", "o", "r", "c", "h">> >>

be_keywords ==
    <<
    <<"a", "p", "i">>, <<"s", "e", "r", "v", "e", "r">>,
    <<"d", "a", "t", "a", "b", "a", "s", "e">>, <<"s", "q", "l">>,
    <<"r", "e", "s", "t">>, <<"g", "r", "a", "p", "h", "q", "l">>,
    <<"d", "o", "c", "k", "e", "r">>, <<"a", "u", "t", "h">> >>

sre_keywords ==
    <<
    <<"k", "u", "b", "e", "r", "n", "e", "t", "e", "s">>,
    <<"d", "o", "c", "k", "e", "r">>,
    <<"t", "e", "r", "r", "a", "f", "o", "r", "m">>,
    <<"a", "n", "s", "i", "b", "l", "e">>,
    <<"c", "l", "o", "u", "d">>,
    <<"a", "w", "s">>,
    <<"g", "c", "p">>,
    <<"a", "z", "u", "r", "e">>,
    <<"m", "o", "n", "i", "t", "o", "r">>,
    <<"p", "r", "o", "m", "e", "t", "h", "e", "u", "s">> >>

be_languages == {"Python", "Go", "Java", "JavaScript", "TypeScript", "Rust"}

\* any(k in r["description"].lower() for k in keywords if r["description"])
KeywordHit(r, keywords) ==
    /\ TruthyStr(r.description)
    /\ \E i \in 1..Len(keywords) : Contains(keywords[i], Lower(r.description))

RECURSIVE MlScore(_)
MlScore(repos) ==
    IF repos = <<>> THEN 0
    ELSE LET r == repos[Len(repos)]
         IN  MlScore(SubSeq(repos, 1, Len(repos) - 1))
             + (IF r.language = "Jupyter Notebook" \/ r.language = "Python"
                THEN 10 ELSE 0)
             + (IF KeywordHit(r, ml_keywords) THEN 15 ELSE 0)

\* lines 106-112 with the structure bonus given to backend languages only
RECURSIVE BeScoreGated(_)
BeScoreGated(repos) ==
    IF repos = <<>> THEN FZero
    ELSE LET r  == repos[Len(repos)]
             s0 == BeScoreGated(SubSeq(repos, 1, Len(repos) - 1))
             s1 == IF r.language \in be_languages
                   THEN FAdd(FAdd(s0, FFromInt(10)),
                             FDivInt(r.score_breakdown.code_structure, 10))
                   ELSE s0
         IN  IF KeywordHit(r, be_keywords) THEN FAdd(s1, FFromInt(15))
             ELSE s1

\* be_score turns into a float at the first division; the additions of small
\* ints before it are exact either way
RECURSIVE BeScore(_)
BeScore(repos) ==
    IF repos = <<>> THEN FZero
    ELSE LET r  == repos[Len(repos)]
             s0 == BeScore(SubSeq(repos, 1, Len(repos) - 1))
             s1 == IF r.language \in be_languages THEN FAdd(s0, FFromInt(10))
                   ELSE s0
             s2 == IF KeywordHit(r, be_keywords) THEN FAdd(s1, FFromInt(15))
                   ELSE s1
         IN  FAdd(s2, FDivInt(r.score_breakdown.code_structure, 10))

RECURSIVE SreScore(_)
SreScore(repos) ==
    IF repos = <<>> THEN FZero
    ELSE LET r  == repos[Len(repos)]
             s0 == SreScore(SubSeq(repos, 1, Len(repos) - 1))
             s1 == IF KeywordHit(r, sre_keywords) THEN FAdd(s0, FFromInt(20))
                   ELSE s0
         IN  FAdd(s1, FDivInt(r.score_breakdown.deployability, 2))

Role(score) == [score |-> score, fit_label |-> get_fit_label(score)]

compute_role_fit(repos) ==
    IF repos = <<>>
    THEN [role_scores |->
            [ml_engineer      |-> [score |-> 0, fit_label |-> ""],
             backend_engineer |-> [score |-> 0, fit_label |-> ""],
             sre              |-> [score |-> 0, fit_label |-> ""]]]
    ELSE [role_scores |->
            [ml_engineer      |-> Role(Min(100, MlScore(repos))),
             backend_engineer |-> Role(Min(100, FTrunc(BeScore(repos)))),
             sre              |-> Role(Min(100, FTrunc(SreScore(repos))))]]

RoleNames == {"ml_engineer", "backend_engineer", "sre"}

(***************************************************************************)
(* The cloned working tree.  A tree maps every directory path (a sequence  *)
(* of names, the clone root is the empty path) to the set of files in it;  *)
(* a file has a name, its text (the head of the text and a count of        *)
(* trailing blanks, which no search of the code can match) and what        *)
(* radon's cc_visit makes of it (a syntax error, or the complexities of    *)
(* its blocks).                                                            *)
(***************************************************************************)
Root == <<>>

Parent(p) == SubSeq(p, 1, Len(p) - 1)

BaseName(p) == p[Len(p)]

File(name, text, filler, parses, blocks) ==
    [name |-> name, text |-> text, filler |-> filler, parses |-> parses,
     blocks |-> blocks]

PlainFile(name) == File(name, <<>>, 0, TRUE, <<>>)

ChildDirs(tree, p) ==
    {q \in DOMAIN tree : Len(q) = Len(p) + 1 /\ Parent(q) = p}

\* the dirs and files of os.walk's (root, dirs, files) at directory p
DirNames(tree, p) == {BaseName(q) : q \in ChildDirs(tree, p)}

FileNames(tree, p) == {f.name : f \in tree[p]}

\* tempfile.TemporaryDirectory() and os.path.join(temp_dir, repo.name)
TempDir == <<"/", "t", "m", "p", "/", "t", "m", "p", "0", "a", "1", "b", "2", "c", "3", "d">>

RepoPath(repo_name) == TempDir \o <<"/">> \o repo_name

\* the root string os.walk yields for directory p
RECURSIVE PathStr(_, _)
PathStr(path, p) ==
    IF p = Root THEN path
    ELSE PathStr(path, Parent(p)) \o <<"/">> \o BaseName(p)

\* the orders in which os.walk can yield the directories below the roots in
\* S: top down, the children of a directory in the order the file system
\* lists them, which is any order
RECURSIVE WalkForest(_, _)
WalkForest(tree, S) ==
    IF S = {} THEN {<<>>}
    ELSE UNION {{<<c>> \o below \o after :
                    below \in WalkForest(tree, ChildDirs(tree, c)),
                    after \in WalkForest(tree, S \ {c})} : c \in S}

WalkOrders(tree) == WalkForest(tree, {Root})

\* every (directory, file) of the tree
AllFiles(tree) == UNION {{<<p, f>> : f \in tree[p]} : p \in DOMAIN tree}

(***************************************************************************)
(* analyzer.py: the heuristics on a tree                                   *)
(***************************************************************************)
src_dirs == <<<<"s", "r", "c">>, <<"l", "i", "b">>, <<"a", "p", "p">>, <<"c", "o", "r", "e">>>>

test_dirs == <<
    <<"t", "e", "s", "t", "s">>, <<"t", "e", "s", "t">>,
    <<"_", "_", "t", "e", "s", "t", "s", "_", "_">>, <<"s", "p", "e", "c">> >>

config_files ==
    <<
    <<".", "t", "r", "a", "v", "i", "s", ".", "y", "m", "l">>,
    <<".", "c", "i", "r", "c", "l", "e", "c", "i">>,
    <<"J", "e", "n", "k", "i", "n", "s", "f", "i", "l", "e">>,
    <<".", "g", "i", "t", "h", "u", "b", "/", "w", "o", "r", "k", "f", "l", "o", "w", "s">>,
    <<"p", "y", "t", "e", "s", "t", ".", "i", "n", "i">>,
    <<"j", "e", "s", "t", ".", "c", "o", "n", "f", "i", "g", ".", "j", "s">> >>

deploy_files ==
    <<
    <<"D", "o", "c", "k", "e", "r", "f", "i", "l", "e">>,
    <<"d", "o", "c", "k", "e", "r", "-", "c", "o", "m", "p", "o", "s", "e", ".", "y", "m", "l">>,
    <<"P", "r", "o", "c", "f", "i", "l", "e">>,
    <<"r", "e", "q", "u", "i", "r", "e", "m", "e", "n", "t", "s", ".", "t", "x", "t">>,
    <<"p", "a", "c", "k", "a", "g", "e", ".", "j", "s", "o", "n">>,
    <<".", "v", "e", "r", "c", "e", "l", "i", "g", "n", "o", "r", "e">>,
    <<"n", "e", "t", "l", "i", "f", "y", ".", "t", "o", "m", "l">> >>

StrTest == <<"t", "e", "s", "t">>

StrGithub == <<".", "g", "i", "t", "h", "u", "b">>

StrReadme == <<"r", "e", "a", "d", "m", "e">>

StrDockerfile == <<"D", "o", "c", "k", "e", "r", "f", "i", "l", "e">>

ExtTf == <<".", "t", "f">>

ExtPy == <<".", "p", "y">>

RECURSIVE Join(_, _)
Join(names, sep) ==
    IF names = <<>> THEN <<>>
    ELSE IF Len(names) = 1 THEN names[1]
    ELSE names[1] \o sep \o Join(Tail(names), sep)

NoteLayoutHead == 
    <<"S", "t", "r", "u", "c", "t", "u", "r", "e", "d", " ", "p", "r", "o",
      "j", "e", "c", "t", " ", "l", "a", "y", "o", "u", "t", " ", "(">>

NoteSmall == 
    <<"V", "e", "r", "y", " ", "s", "m", "a", "l", "l", " ", "c", "o", "d",
      "e", "b", "a", "s", "e", " ", "(", "s", "k", "e", "l", "e", "t", "o",
      "n", "?", ")">>

NoteInterest == 
    <<"H", "i", "g", "h", " ", "c", "o", "m", "m", "u", "n", "i", "t", "y",
      " ", "i", "n", "t", "e", "r", "e", "s", "t", " ", "(", "s", "t", "a",
      "r", "s", "/", "f", "o", "r", "k", "s", ")">>

NoteDetailed == 
    <<"D", "e", "t", "a", "i", "l", "e", "d", " ", "R", "E", "A", "D", "M",
      "E">>

NoteLacksDepth == 
    <<"R", "E", "A", "D", "M", "E", " ", "l", "a", "c", "k", "s", " ", "d",
      "e", "p", "t", "h">>

NoteTesting == 
    <<"T", "e", "s", "t", "i", "n", "g", " ", "i", "n", "f", "r", "a", "s",
      "t", "r", "u", "c", "t", "u", "r", "e", " ", "d", "e", "t", "e", "c",
      "t", "e", "d">>

NoteNoTests == 
    <<"N", "o", " ", "t", "e", "s", "t", "s", " ", "f", "o", "u", "n", "d">>

\* os.path.exists(os.path.join(path, d)): a file or a directory of that name
ExistsAtRoot(tree, d) == d \in DirNames(tree, Root) \cup FileNames(tree, Root)

FileCount(tree) == Cardinality(AllFiles(tree))

_analyze_structure(tree) ==
    LET found_dirs == SelectSeq(src_dirs, LAMBDA d : ExistsAtRoot(tree, d))
        s1         == IF found_dirs # <<>> THEN 50 + 20 ELSE 50
        file_count == FileCount(tree)
        s2         == IF file_count < 3 THEN s1 - 20
                      ELSE IF file_count > 50 THEN s1 + 10 ELSE s1
    IN  [score      |-> Min(100, Max(0, s2)),
         strengths  |-> IF found_dirs # <<>>
                        THEN <<NoteLayoutHead \o Join(found_dirs, <<",", " ">>)
                                 \o <<")">> >>
                        ELSE <<>>,
         weaknesses |-> IF file_count < 3 THEN <<NoteSmall>> ELSE <<>>]

\* os.listdir(path): the names of the files and directories at the root
ListDir(tree) == DirNames(tree, Root) \cup FileNames(tree, Root)

\* the entries the loop of lines 185-188 can stop at: the first name in
\* listing order that starts with "readme", any of them as the order is the
\* file system's; None when there is none
ReadmePicks(tree) ==
    LET hits == {f \in ListDir(tree) : StartsWith(Lower(f), StrReadme)}
    IN  IF hits = {} THEN {NoneStr} ELSE hits

KwInstall == <<"i", "n", "s", "t", "a", "l", "l">>

KwUsage == <<"u", "s", "a", "g", "e">>

KwContributing == <<"c", "o", "n", "t", "r", "i", "b", "u", "t", "i", "n", "g">>

KwLicense == <<"l", "i", "c", "e", "n", "s", "e">>

KwHeading == <<"#", "#">>

\* what LocalLLM.analyze_readme can hand back: None after any failure of the
\* call, or the parsed JSON of the model's answer
LlmNone ==
    [kind |-> "none", score_is_number |-> FALSE, score |-> 0,
     notes_are_lists |-> FALSE, strengths |-> <<>>, weaknesses |-> <<>>]

\* score_is_number: the "score" of the answer is a number and not a string or
\* null; notes_are_lists: its "strengths" and "weaknesses" are lists and not
\* null
LlmDict(score_is_number, llm_score, notes_are_lists, strengths, weaknesses) ==
    [kind |-> "dict", score_is_number |-> score_is_number, score |-> llm_score,
     notes_are_lists |-> notes_are_lists,
     strengths |-> strengths, weaknesses |-> weaknesses]

\* lines 190-199: the score from the text of the README
ReadmeHeuristic(f) ==
    LET content == Lower(f.text)
    IN  30
        + (IF Len(f.text) + f.filler > 500 THEN 20 ELSE 0)
        + (IF Contains(KwInstall, content) THEN 10 ELSE 0)
        + (IF Contains(KwUsage, content) THEN 10 ELSE 0)
        + (IF Contains(KwContributing, content) THEN 10 ELSE 0)
        + (IF Contains(KwLicense, content) THEN 10 ELSE 0)
        + (IF Contains(KwHeading, content) THEN 10 ELSE 0)

\* lines 207 and 212: int((score + llm_score) / 2), the sum computed once
Average(score, llm_score) ==
    CHOOSE half \in {FTrunc(FDivInt(n, 2)) : n \in {score + llm_score}} : TRUE

\* pick is the entry the listing loop stopped at, llm tells whether self.llm
\* is set, response is what self.llm.analyze_readme returns.  raised: open()
\* on a directory raises IsADirectoryError, which nothing catches.  notes:
\* the dict returned with the score is not empty.  A TypeError of
\* score + llm_score is caught at line 216 and leaves the heuristic score.
_analyze_readme(tree, pick, llm, response) ==
    IF pick = NoneStr
    THEN [raised |-> FALSE, score |-> 0, notes |-> FALSE,
          strengths |-> <<>>, weaknesses |-> <<>>]
    ELSE IF pick \notin FileNames(tree, Root)
    THEN [raised |-> TRUE, score |-> 0, notes |-> FALSE,
          strengths |-> <<>>, weaknesses |-> <<>>]
    ELSE LET f     == CHOOSE g \in tree[Root] : g.name = pick
             score == ReadmeHeuristic(f)
         IN  IF llm /\ response.kind = "dict" /\ response.score_is_number
             THEN [raised |-> FALSE,
                   score |-> Min(100, Average(score, response.score)),
                   notes |-> TRUE,
                   strengths |-> response.strengths,
                   weaknesses |-> response.weaknesses]
             ELSE [raised |-> FALSE, score |-> Min(100, score), notes |-> FALSE,
                   strengths |-> <<>>, weaknesses |-> <<>>]

\* lines 225-232 without the two break statements: every directory of the
\* walk adds its 40 or its 20
RECURSIVE TestPassEveryDir(_, _, _)
TestPassEveryDir(tree, order, i) ==
    IF i > Len(order) THEN 0
    ELSE (IF \E d \in DirNames(tree, order[i]) : d \in SeqToSet(test_dirs)
          THEN 40
          ELSE IF \E f \in FileNames(tree, order[i]) : Contains(StrTest, Lower(f))
          THEN 20
          ELSE 0) + TestPassEveryDir(tree, order, i + 1)

\* lines 225-232: the first directory in walk order with a test directory
\* among its dirs (40) or a file name containing "test" (20)
RECURSIVE TestPass(_, _, _)
TestPass(tree, order, i) ==
    IF i > Len(order) THEN 0
    ELSE IF \E d \in DirNames(tree, order[i]) : d \in SeqToSet(test_dirs)
    THEN 40
    ELSE IF \E f \in FileNames(tree, order[i]) : Contains(StrTest, Lower(f))
    THEN 20
    ELSE TestPass(tree, order, i + 1)

\* lines 236-240: some file, in walk order, is a CI marker or lies under a
\* root whose string contains ".github"
RECURSIVE ConfigPass(_, _, _, _)
ConfigPass(path, tree, order, i) ==
    IF i > Len(order) THEN FALSE
    ELSE IF \E f \in FileNames(tree, order[i]) :
               \/ f \in SeqToSet(config_files)
               \/ Contains(StrGithub, PathStr(path, order[i]))
    THEN TRUE
    ELSE ConfigPass(path, tree, order, i + 1)

_analyze_testing_subtracts(path, tree, order) ==
    LET score == 0 - TestPass(tree, order, 1)
    IN  IF ConfigPass(path, tree, order, 1) THEN Min(100, score + 40)
        ELSE Min(100, score)

_analyze_testing(path, tree, order) ==
    LET score == TestPass(tree, order, 1)
    IN  IF ConfigPass(path, tree, order, 1) THEN Min(100, score + 40)
        ELSE Min(100, score)

PyFiles(tree) == {pf \in AllFiles(tree) : EndsWith(pf[2].name, ExtPy)}

RECURSIVE TotalCc(_)
TotalCc(files) ==
    IF files = {} THEN 0
    ELSE LET pf == CHOOSE x \in files : TRUE
         IN  SumSeq(pf[2].blocks) + TotalCc(files \ {pf})

RECURSIVE BlockCount(_)
BlockCount(files) ==
    IF files = {} THEN 0
    ELSE LET pf == CHOOSE x \in files : TRUE
         IN  Len(pf[2].blocks) + BlockCount(files \ {pf})

\* lines 262-265
ComplexityScore(total_cc, file_count) ==
    LET avg_cc == FDivInt(total_cc, file_count)
        score  == FSub(FFromInt(100),
                       FMul(FSub(avg_cc, FFromInt(5)), FDivInt(100, 15)))
    IN  IF FIsPositive(score) THEN FTrunc(score) ELSE 0

\* cc_visit raises on a file it cannot parse; any exception gives 50.  The
\* two sums are computed once.
_analyze_complexity_python(tree) ==
    CHOOSE comp_score \in
        {IF \E pf \in PyFiles(tree) : ~pf[2].parses THEN 50
         ELSE IF sums.file_count > 0
         THEN ComplexityScore(sums.total_cc, sums.file_count)
         ELSE 50 :
            sums \in {[total_cc |-> TotalCc(PyFiles(tree)),
                       file_count |-> BlockCount(PyFiles(tree))]}} : TRUE

DeployPoints(name) ==
    (IF name \in SeqToSet(deploy_files) THEN 20 ELSE 0)
    + (IF name = StrDockerfile THEN 30 ELSE 0)
    + (IF EndsWith(name, ExtTf) THEN 30 ELSE 0)

\* lines 275-282 with every file name counted once, whatever the number of
\* directories that hold it
RECURSIVE DeployScoreByName(_)
DeployScoreByName(files) ==
    IF files = {} THEN 0
    ELSE LET pf == CHOOSE x \in files : TRUE
         IN  DeployPoints(pf[2].name)
             + DeployScoreByName({x \in files : x[2].name # pf[2].name})

\* lines 275-282: every file of the walk adds its points
RECURSIVE DeployScore(_)
DeployScore(files) ==
    IF files = {} THEN 0
    ELSE LET pf == CHOOSE x \in files : TRUE
         IN  DeployPoints(pf[2].name) + DeployScore(files \ {pf})

_analyze_sec_deploy(tree) ==
    LET sec_score    == 80
        deploy_score == DeployScore(AllFiles(tree))
    IN  [sec_score |-> Min(100, sec_score), deploy_score |-> Min(100, deploy_score)]

(***************************************************************************)
(* analyzer.py: analyze_repo                                               *)
(***************************************************************************)
\* the score_breakdown dict of lines 83-91
Breakdown(cs, t, r, pv, d, c, s) ==
    [code_structure |-> cs, testing_ci |-> t, readme |-> r,
     project_value |-> pv, deployability |-> d, complexity |-> c,
     security |-> s]

ZeroBreakdown == Breakdown(0, 0, 0, 0, 0, 0, 0)

CloneFailedFlag == "Clone failed - manual inspection required"

\* the dict of lines 77-99
NewAnalysis(repo) ==
    [repo_name |-> repo.name, language |-> repo.language, stars |-> repo.stars,
     forks |-> repo.forks, description |-> repo.description,
     composite_score |-> 0, rating |-> "Unknown",
     score_breakdown |-> ZeroBreakdown,
     strengths |-> <<>>, weaknesses |-> <<>>,
     critical_flags |-> <<>>, improvement_suggestions |-> <<>>]

\* lines 101-108 without the cap of line 102
ValueAssessmentUnclamped(analysis) ==
    LET project_value == analysis.stars * 2 + analysis.forks * 5
    IN  [analysis EXCEPT
           !.score_breakdown.project_value = project_value,
           !.strengths = IF project_value > 50 THEN Append(@, NoteInterest) ELSE @]

\* lines 101-108
ValueAssessment(analysis) ==
    LET project_value == Min(100, analysis.stars * 2 + analysis.forks * 5)
    IN  [analysis EXCEPT
           !.score_breakdown.project_value = project_value,
           !.strengths = IF project_value > 50 THEN Append(@, NoteInterest) ELSE @]

CloneFailedUnflagged(analysis) == analysis

\* lines 152-154
CloneFailed(analysis) ==
    [analysis EXCEPT !.critical_flags = Append(@, CloneFailedFlag)]

\* lines 157-158, composite the value _calculate_composite returned
Rated(analysis, composite) ==
    [analysis EXCEPT !.composite_score = composite,
                     !.rating = _get_rating_label(composite)]

\* lines 156-158; the analysis and its composite are computed once
Composite(analysis) ==
    CHOOSE rated \in
        {Rated(b.analysis, b.composite) :
            b \in {[analysis |-> a,
                    composite |-> _calculate_composite(a.score_breakdown)] :
                        a \in {analysis}}} : TRUE

\* lines 114-150, readme the result of _analyze_readme
DeepAnalysis(analysis, tree, order, readme) ==
    LET struct     == _analyze_structure(tree)
        test_score == _analyze_testing(RepoPath(analysis.repo_name), tree, order)
        comp_score == IF analysis.language = "Python"
                      THEN _analyze_complexity_python(tree) ELSE 50
        sec_deploy == _analyze_sec_deploy(tree)
    IN  [analysis EXCEPT
           !.score_breakdown =
               [@ EXCEPT !.code_structure = struct.score,
                         !.readme = readme.score,
                         !.testing_ci = test_score,
                         !.complexity = comp_score,
                         !.security = sec_deploy.sec_score,
                         !.deployability = sec_deploy.deploy_score],
           !.strengths =
               @ \o struct.strengths \o readme.strengths
                 \o (IF readme.score > 70 /\ ~readme.notes
                     THEN <<NoteDetailed>> ELSE <<>>)
                 \o (IF test_score > 0 THEN <<NoteTesting>> ELSE <<>>),
           !.weaknesses =
               @ \o struct.weaknesses \o readme.weaknesses
                 \o (IF ~(readme.score > 70 /\ ~readme.notes)
                        /\ readme.score <= 40 /\ ~readme.notes
                     THEN <<NoteLacksDepth>> ELSE <<>>)
                 \o (IF test_score > 0 THEN <<>> ELSE <<NoteNoTests>>)]

\* cloned: what clone_repo returned; tree, order, pick: the clone, the order
\* os.walk lists it in and the entry the README search stops at.  raised: an
\* exception leaves analyze_repo, from open() on a directory (line 192) or
\* from extend() on notes that are not lists (lines 124-125).
analyze_repo(repo, cloned, tree, order, pick, llm, response) ==
    CHOOSE result \in
        {IF cloned /\ (readme.raised
                        \/ (readme.notes /\ ~response.notes_are_lists))
         THEN [raised |-> TRUE, analysis |-> analysis]
         ELSE [raised |-> FALSE,
               analysis |->
                   Composite(IF cloned
                             THEN DeepAnalysis(analysis, tree, order, readme)
                             ELSE CloneFailed(analysis))] :
            analysis \in {ValueAssessment(NewAnalysis(repo))},
            readme \in {_analyze_readme(tree, pick, llm, response)}} : TRUE

(***************************************************************************)
(* State.  One module holds the pipeline and the pure functions; every     *)
(* specification below starts the part it exercises and leaves the rest    *)
(* idle.                                                                   *)
(***************************************************************************)
VARIABLES
    pc,                \* position of the code under the specification
    score,             \* the argument of the label functions
    labels,            \* what the label functions returned for score
    breakdown,         \* the argument of _calculate_composite
    composite_score,   \* what _calculate_composite returned
    repositories,      \* profile_data["repositories"]
    hiring_readiness,  \* what compute_hiring_readiness returned
    role_scores,       \* what compute_role_fit returned
    llm,               \* self.llm is set
    fetched,           \* the repositories get_repos() has yielded so far
    languages_detected,    \* profile_data["languages_detected"]
    primary_language,      \* profile_data["primary_language"]
    total_repos_analyzed,  \* profile_data["total_repos_analyzed"]
    llm_summary,       \* profile_data["llm_summary"]
    tree,              \* the tree _analyze_testing is given
    path,              \* the path string of its root
    test_score,        \* what _analyze_testing returned for tree
    prev_score,        \* what it returned before the tree was changed
    repo_language,     \* repo.language of the repository tree is the clone of
    readme_call,       \* the README entry found and the provider's answer
    readme,            \* what _analyze_readme returned for tree
    comp_score,        \* the complexity sub-score of lines 141-145
    sec_deploy         \* what _analyze_sec_deploy returned for tree

profileVars == <<llm, fetched, languages_detected, primary_language,
                 total_repos_analyzed, llm_summary>>

testingVars == <<tree, path, test_score, prev_score>>

cloneVars == <<repo_language, readme_call, readme, comp_score, sec_deploy>>

vars == <<pc, score, labels, breakdown, composite_score, repositories,
          hiring_readiness, role_scores, profileVars, testingVars, cloneVars>>

Unset == [unset |-> TRUE]

NoLabels == [rating |-> "", tier |-> "", tier_label |-> ""]

LabelsIdle == score = 0 /\ labels = NoLabels

CompositeIdle == breakdown = ZeroBreakdown /\ composite_score = 0

ScoringIdle ==
    repositories = <<>> /\ hiring_readiness = Unset /\ role_scores = Unset

\* the key llm_summary is not in profile_data
Absent == "absent"

\* lines 31-39 with self.llm unset
ProfileIdle ==
    /\ llm = FALSE
    /\ fetched = <<>>
    /\ languages_detected = {}
    /\ primary_language = "Unknown"
    /\ total_repos_analyzed = 0
    /\ llm_summary = Absent

EmptyTree == [p \in {Root} |-> {}]

TestingIdle ==
    /\ tree = EmptyTree
    /\ path = TempDir
    /\ test_score = Unset
    /\ prev_score = Unset

CloneIdle ==
    /\ repo_language = None
    /\ readme_call = Unset
    /\ readme = Unset
    /\ comp_score = Unset
    /\ sec_deploy = Unset

(***************************************************************************)
(* SpecLabels: _get_rating_label and the tier ladder on every score of a   *)
(* range around 0..100.                                                    *)
(***************************************************************************)
\* scores run from -ScoreBelow to ScoreMax
ScoreBelow == 5

ScoreMax == 105

InitLabels ==
    /\ pc = "labels"
    /\ score \in (-ScoreBelow)..ScoreMax
    /\ labels = NoLabels
    /\ CompositeIdle
    /\ ScoringIdle
    /\ ProfileIdle
    /\ TestingIdle
    /\ CloneIdle

RateScore ==
    /\ pc = "labels"
    /\ labels.rating = ""
    /\ labels' = [labels EXCEPT !.rating = _get_rating_label(score)]
    /\ UNCHANGED <<pc, score, breakdown, composite_score, repositories,
                   hiring_readiness, role_scores,
                   profileVars, testingVars, cloneVars>>

\* lines 61-72 of compute_hiring_readiness on final_score = score
TierScore ==
    /\ pc = "labels"
    /\ labels.tier = ""
    /\ LET tier == HiringTier(score)
       IN  labels' = [labels EXCEPT !.tier = tier,
                                    !.tier_label = get_tier_label(tier)]
    /\ UNCHANGED <<pc, score, breakdown, composite_score, repositories,
                   hiring_readiness, role_scores,
                   profileVars, testingVars, cloneVars>>

NextLabels == RateScore \/ TierScore

SpecLabels == InitLabels /\ [][NextLabels]_vars

(***************************************************************************)
(* SpecComposite: _calculate_composite on a grid of breakdowns.            *)
(***************************************************************************)
Breakdowns ==
    [code_structure : {30, 50, 80},
     testing_ci     : {0, 80, 100},
     readme         : {0, 60, 97},
     project_value  : {0, 40, 99},
     deployability  : {0, 20, 100},
     complexity     : {50, 100},
     security       : {0, 80}]

InitComposite ==
    /\ pc = "composite"
    /\ breakdown \in Breakdowns
    /\ composite_score = 0
    /\ LabelsIdle
    /\ ScoringIdle
    /\ ProfileIdle
    /\ TestingIdle
    /\ CloneIdle

CalculateComposite ==
    /\ pc = "composite"
    /\ composite_score' = _calculate_composite(breakdown)
    /\ pc' = "rating"
    /\ UNCHANGED <<score, labels, breakdown, repositories, hiring_readiness,
                   role_scores,
                   profileVars, testingVars, cloneVars>>

\* line 158 of analyze_repo
GetRatingLabel ==
    /\ pc = "rating"
    /\ labels' = [labels EXCEPT !.rating = _get_rating_label(composite_score)]
    /\ pc' = "done"
    /\ UNCHANGED <<score, breakdown, composite_score, repositories,
                   hiring_readiness, role_scores,
                   profileVars, testingVars, cloneVars>>

NextComposite == CalculateComposite \/ GetRatingLabel

SpecComposite == InitComposite /\ [][NextComposite]_vars

(***************************************************************************)
(* SpecScoring: compute_hiring_readiness and compute_role_fit on lists of  *)
(* repository analyses, in the order analyze_profile calls them.  Every    *)
(* analysis of the pools carries the composite score _calculate_composite  *)
(* gives for its breakdown.                                                *)
(***************************************************************************)
\* the dict analyze_repo returns (lines 77-99, 157-158)
Analysis(name, language, stars, forks, description, bd, composite, flags) ==
    [repo_name |-> name, language |-> language, stars |-> stars,
     forks |-> forks, description |-> description,
     composite_score |-> composite,
     rating |-> _get_rating_label(composite),
     score_breakdown |-> bd,
     strengths |-> <<>>, weaknesses |-> <<>>,
     critical_flags |-> flags, improvement_suggestions |-> <<>>]

DescMl == <<"P", "y", "T", "o", "r", "c", "h", " ", "m", "o", "d", "e", "l", " ", "t", "r", "a", "i", "n", "i", "n", "g">>

DescApi == 
    <<"R", "E", "S", "T", " ", "A", "P", "I", " ", "s", "e", "r", "v", "e", "r", " ", "f", "o", "r", " ", "m", "o", "d", "e", "l", " ", "s", "e", "r", "v", "i", "n", "g", " ", "o", "n", " ", "D", "o", "c", "k", "e", "r">>

RepoFailed ==
    Analysis("failed", "Go", 0, 0, NoneStr, ZeroBreakdown, 0,
             <<CloneFailedFlag>>)

RepoApi ==
    Analysis("api", "Go", 0, 0, DescApi,
             Breakdown(70, 40, 0, 0, 50, 50, 80), 40, <<>>)

RepoPlain ==
    Analysis("plain", None, 0, 0, NoneStr,
             Breakdown(50, 40, 0, 0, 0, 50, 80), 30, <<>>)

RepoMl ==
    Analysis("ml", "Python", 30, 10, DescMl,
             Breakdown(70, 80, 100, 100, 100, 50, 80), 83, <<>>)

ScoringPool == {RepoFailed, RepoApi, RepoPlain, RepoMl}

Flagged(flags) ==
    Analysis("flagged", "Rust", 1, 0, <<>>,
             Breakdown(50, 0, 30, 2, 0, 50, 80), 26, flags)

FlagPool ==
    {Flagged(<<>>), Flagged(<<CloneFailedFlag>>),
     Flagged(<<CloneFailedFlag, "Secrets committed">>)}

MaxScoringRepos == 4

MaxFlaggedRepos == 6

SeqsUpTo(S, n) == UNION {[1..k -> S] : k \in 0..n}

InitScoring ==
    /\ pc = "scoring"
    /\ repositories \in SeqsUpTo(ScoringPool, MaxScoringRepos)
                        \cup SeqsUpTo(FlagPool, MaxFlaggedRepos)
    /\ hiring_readiness = Unset
    /\ role_scores = Unset
    /\ LabelsIdle
    /\ CompositeIdle
    /\ ProfileIdle
    /\ TestingIdle
    /\ CloneIdle

ComputeHiringReadiness ==
    /\ pc = "scoring"
    /\ hiring_readiness' = compute_hiring_readiness(repositories)
    /\ pc' = "role_fit"
    /\ UNCHANGED <<score, labels, breakdown, composite_score, repositories,
                   role_scores,
                   profileVars, testingVars, cloneVars>>

ComputeRoleFit ==
    /\ pc = "role_fit"
    /\ role_scores' = compute_role_fit(repositories)
    /\ pc' = "done"
    /\ UNCHANGED <<score, labels, breakdown, composite_score, repositories,
                   hiring_readiness,
                   profileVars, testingVars, cloneVars>>

NextScoring == ComputeHiringReadiness \/ ComputeRoleFit

SpecScoring == InitScoring /\ [][NextScoring]_vars

(***************************************************************************)
(* Spec: analyze_profile.  The profile source yields up to MaxRepos         *)
(* repositories; every clone either fails or leaves one of a few trees.    *)
(***************************************************************************)
MaxRepos == 2

\* the attributes of a PyGithub Repository that the code reads
Repository(name, language, stargazers_count, forks_count, description, fork) ==
    [name |-> name, language |-> language, stars |-> stargazers_count,
     forks |-> forks_count, description |-> description, fork |-> fork]

RepoForked == Repository(<<"r", "a", "i", "l", "s">>, "Ruby", 40, 9, NoneStr, TRUE)

RepoMlLab == Repository(<<"m", "l", "-", "l", "a", "b">>, "Python", 30, 10, DescMl, FALSE)

RepoSite == Repository(<<"m", "e", ".", "g", "i", "t", "h", "u", "b", ".", "i", "o">>, None, 0, 0, NoneStr, FALSE)

RepoServer == Repository(<<"s", "e", "r", "v", "e", "r">>, "Go", 3, 1, DescApi, FALSE)

Repositories == {RepoForked, RepoMlLab, RepoSite, RepoServer}

GitDir == <<<<".", "g", "i", "t">>>>

GitFiles == {PlainFile(<<"H", "E", "A", "D">>)}

ReadmeFile ==
    File(<<"R", "E", "A", "D", "M", "E", ".", "m", "d">>,
         <<"#", "#", " ", "I", "n", "s", "t", "a", "l", "l">> \o <<"\n">> \o <<"S", "e", "e", " ", "U", "s", "a", "g", "e", " ", "b", "e", "l", "o", "w">>,
         600, TRUE, <<>>)

\* a page and nothing else
TreeTiny ==
    [p \in {Root, GitDir} |->
        IF p = Root THEN {PlainFile(<<"i", "n", "d", "e", "x", ".", "h", "t", "m", "l">>)} ELSE GitFiles]

\* README, sources with a test directory, a Dockerfile and a CI marker
TreeFull ==
    [p \in {Root, GitDir, <<<<"s", "r", "c">>>>, <<<<"s", "r", "c">>, <<"t", "e", "s", "t", "s">>>>} |->
        CASE p = Root -> {ReadmeFile, PlainFile(<<"D", "o", "c", "k", "e", "r", "f", "i", "l", "e">>),
                          PlainFile(<<".", "t", "r", "a", "v", "i", "s", ".", "y", "m", "l">>)}
          [] p = GitDir -> GitFiles
          [] p = <<<<"s", "r", "c">>>> -> {File(<<"m", "a", "i", "n", ".", "p", "y">>, <<>>, 0, TRUE, <<1, 2>>)}
          [] OTHER -> {File(<<"t", "e", "s", "t", "_", "m", "a", "i", "n", ".", "p", "y">>, <<>>, 0, TRUE, <<1>>)}]

\* a directory named readme at the root
TreeReadmeDir ==
    [p \in {Root, GitDir, <<<<"r", "e", "a", "d", "m", "e">>>>} |->
        CASE p = Root -> {File(<<"m", "a", "i", "n", ".", "p", "y">>, <<>>, 0, TRUE, <<3>>)}
          [] p = GitDir -> GitFiles
          [] OTHER -> {PlainFile(<<"l", "o", "g", "o", ".", "p", "n", "g">>)}]

Trees == {TreeTiny, TreeFull, TreeReadmeDir}

NoteClear == <<"C", "l", "e", "a", "r", " ", "s", "e", "t", "u", "p", " ", "s", "t", "e", "p", "s">>

NoteNoExamples == <<"N", "o", " ", "e", "x", "a", "m", "p", "l", "e", "s">>

\* answers of the model behind LocalLLM.analyze_readme
Responses ==
    {LlmNone,
     LlmDict(TRUE, 94, TRUE, <<NoteClear>>, <<NoteNoExamples>>),
     LlmDict(TRUE, -100, TRUE, <<>>, <<NoteNoExamples>>),
     LlmDict(TRUE, 80, FALSE, <<>>, <<>>)}

\* analyze_readme is called only with self.llm set and a README file read
ResponsesFor(t, pick) ==
    IF llm /\ pick \in FileNames(t, Root) THEN Responses ELSE {LlmNone}

\* one element of fetched: the repository and what became of its clone
Fetched(repo, clone) == [repo |-> repo, clone |-> clone]

\* the languages of line 58 that max() can return: those of the highest
\* count; which of them depends on the iteration order of set(langs)
RECURSIVE Count(_, _)
Count(langs, l) ==
    IF langs = <<>> THEN 0
    ELSE (IF Head(langs) = l THEN 1 ELSE 0) + Count(Tail(langs), l)

RECURSIVE Languages(_)
Languages(repos) ==
    IF repos = <<>> THEN <<>>
    ELSE (IF Truthy(Head(repos).language) THEN <<Head(repos).language>>
          ELSE <<>>) \o Languages(Tail(repos))

PrimaryLanguages(repos) ==
    LET langs == Languages(repos)
    IN  IF langs = <<>> THEN {"Unknown"}
        ELSE {l \in SeqToSet(langs) :
                \A k \in SeqToSet(langs) : Count(langs, k) <= Count(langs, l)}

SummaryText == "executive summary"

SummaryFailed == "Summary generation failed due to LLM error."

\* GitSightAnalyzer(token, llm_model) and the first statement of
\* analyze_profile
Init ==
    /\ pc = "get_user"
    /\ llm \in BOOLEAN
    /\ fetched = <<>>
    /\ languages_detected = {}
    /\ primary_language = "Unknown"
    /\ total_repos_analyzed = 0
    /\ llm_summary = Absent
    /\ ScoringIdle
    /\ LabelsIdle
    /\ CompositeIdle
    /\ TestingIdle
    /\ CloneIdle

\* lines 24-26, 31-41
GetUser ==
    /\ pc = "get_user"
    /\ pc' = "repos"
    /\ UNCHANGED <<score, labels, breakdown, composite_score, repositories,
                   hiring_readiness, role_scores, profileVars, testingVars, cloneVars>>

\* lines 27-29: GithubException, analyze_profile returns None
UserNotFound ==
    /\ pc = "get_user"
    /\ pc' = "not_found"
    /\ UNCHANGED <<score, labels, breakdown, composite_score, repositories,
                   hiring_readiness, role_scores, profileVars, testingVars, cloneVars>>

\* lines 42-44
SkipFork ==
    /\ pc = "repos"
    /\ Len(fetched) < MaxRepos
    /\ \E repo \in Repositories :
          /\ repo.fork
          /\ fetched' = Append(fetched, Fetched(repo, "skipped"))
    /\ UNCHANGED <<pc, score, labels, breakdown, composite_score, repositories,
                   hiring_readiness, role_scores, llm, languages_detected,
                   primary_language, total_repos_analyzed, llm_summary,
                   testingVars, cloneVars>>

\* lines 46-49: the clone fails, or succeeds and leaves a tree; an exception
\* out of analyze_repo leaves analyze_profile, which has no handler around
\* the loop
AnalyzeRepo ==
    /\ pc = "repos"
    /\ Len(fetched) < MaxRepos
    /\ \E repo \in Repositories, cloned \in BOOLEAN :
       \E t \in IF cloned THEN Trees ELSE {EmptyTree} :
       \E order \in WalkOrders(t), pick \in ReadmePicks(t) :
       \E response \in ResponsesFor(t, pick) :
       \E result \in {analyze_repo(repo, cloned, t, order, pick, llm,
                                   response)} :
          /\ ~repo.fork
          /\ fetched' = Append(fetched,
                               Fetched(repo, IF cloned THEN "cloned"
                                             ELSE "failed"))
          /\ IF result.raised
             THEN /\ pc' = "raised"
                  /\ UNCHANGED <<repositories, languages_detected>>
             ELSE /\ pc' = pc
                  /\ repositories' = Append(repositories, result.analysis)
                  /\ languages_detected' =
                         languages_detected \cup {repo.language}
    /\ UNCHANGED <<score, labels, breakdown, composite_score,
                   hiring_readiness, role_scores, llm, primary_language,
                   total_repos_analyzed, llm_summary, testingVars, cloneVars>>

\* lines 51-71: get_repos() is exhausted
Aggregate ==
    /\ pc = "repos"
    /\ total_repos_analyzed' = Len(repositories)
    /\ primary_language' \in PrimaryLanguages(repositories)
    /\ hiring_readiness' = compute_hiring_readiness(repositories)
    /\ role_scores' = compute_role_fit(repositories)
    /\ llm_summary' \in IF llm THEN {SummaryText, SummaryFailed} ELSE {Absent}
    /\ pc' = "done"
    /\ UNCHANGED <<score, labels, breakdown, composite_score, repositories,
                   llm, fetched, languages_detected, testingVars, cloneVars>>

Next ==
    \/ GetUser
    \/ UserNotFound
    \/ SkipFork
    \/ AnalyzeRepo
    \/ Aggregate

Spec == Init /\ [][Next]_vars

(***************************************************************************)
(* SpecTesting: _analyze_testing on a tree, then again after a directory   *)
(* named tests has been added to it.                                       *)
(***************************************************************************)
DirSrc == <<<<"s", "r", "c">>>>

DirGithub == <<<<".", "g", "i", "t", "h", "u", "b">>>>

DirWorkflows == <<<<".", "g", "i", "t", "h", "u", "b">>, <<"w", "o", "r", "k", "f", "l", "o", "w", "s">>>>

\* the sets of directories below the root that a tree is drawn with
DirSets ==
    {{}, {DirSrc}, {DirGithub}, {DirGithub, DirWorkflows},
     {DirSrc, DirGithub}, {DirSrc, DirGithub, DirWorkflows}}

\* what a directory holds: nothing, a source file, a CI marker, a CI marker
\* whose name contains "test", or a test file that is no CI marker
FileSets ==
    {{}, {PlainFile(<<"a", "p", "p", ".", "j", "s">>)}, {PlainFile(<<".", "t", "r", "a", "v", "i", "s", ".", "y", "m", "l">>)},
     {PlainFile(<<"p", "y", "t", "e", "s", "t", ".", "i", "n", "i">>)},
     {PlainFile(<<"t", "e", "s", "t", "_", "a", "p", "p", ".", "j", "s">>)}}

TestingTrees ==
    UNION {[{Root} \cup dirs -> FileSets] : dirs \in DirSets}

RepoNames == {<<"d", "e", "m", "o">>, <<"m", "e", ".", "g", "i", "t", "h", "u", "b", ".", "i", "o">>}

\* no directory of test_dirs and no file whose name contains "test"
TestFree(t) ==
    /\ \A q \in DOMAIN t \ {Root} : BaseName(q) \notin SeqToSet(test_dirs)
    /\ \A pf \in AllFiles(t) : ~Contains(StrTest, Lower(pf[2].name))

\* t with the directory named tests, holding files, added below parent
WithTestsDir(t, parent, files) ==
    [q \in DOMAIN t \cup {Append(parent, <<"t", "e", "s", "t", "s">>)} |->
        IF q \in DOMAIN t THEN t[q] ELSE files]

InitTesting ==
    /\ pc = "testing"
    /\ tree \in TestingTrees
    /\ path \in {RepoPath(name) : name \in RepoNames}
    /\ test_score = Unset
    /\ prev_score = Unset
    /\ LabelsIdle
    /\ CompositeIdle
    /\ ScoringIdle
    /\ ProfileIdle
    /\ CloneIdle

\* lines 221-242 on the tree as it is
AnalyzeTesting ==
    /\ pc \in {"testing", "changed"}
    /\ \E order \in WalkOrders(tree) :
          test_score' = _analyze_testing(path, tree, order)
    /\ pc' = IF pc = "testing" THEN "analyzed" ELSE "reanalyzed"
    /\ UNCHANGED <<score, labels, breakdown, composite_score, repositories,
                   hiring_readiness, role_scores, profileVars, tree, path,
                   prev_score, cloneVars>>

\* the repository gains a directory named tests, empty or with a test file
AddTestsDir ==
    /\ pc = "analyzed"
    /\ TestFree(tree)
    /\ \E parent \in DOMAIN tree,
          files \in {{}, {PlainFile(<<"t", "e", "s", "t", "_", "a", "p", "p", ".", "j", "s">>)}} :
          tree' = WithTestsDir(tree, parent, files)
    /\ prev_score' = test_score
    /\ pc' = "changed"
    /\ UNCHANGED <<score, labels, breakdown, composite_score, repositories,
                   hiring_readiness, role_scores, profileVars, path,
                   test_score, cloneVars>>

NextTesting == AnalyzeTesting \/ AddTestsDir

SpecTesting == InitTesting /\ [][NextTesting]_vars

(***************************************************************************)
(* SpecClone: the README, complexity and deployability heuristics of       *)
(* analyze_repo on the clone of one repository, in the order of lines      *)
(* 120-150.                                                                *)
(***************************************************************************)
DirInfra == <<<<"i", "n", "f", "r", "a">>>>

\* the files one part of a clone puts at the root and in the directory infra
Part(at_root, in_infra) == [at_root |-> at_root, in_infra |-> in_infra]

ReadmeShort == File(<<"R", "E", "A", "D", "M", "E", ".", "m", "d">>, <<"h", "i">>, 0, TRUE, <<>>)

ReadmeComplete ==
    File(<<"R", "e", "a", "d", "m", "e", ".", "r", "s", "t">>,
         <<"#", "#", " ", "I", "n", "s", "t", "a", "l", "l", ",", " ", "U", "s", "a", "g", "e", ",", " ", "C", "o", "n", "t", "r", "i", "b", "u", "t", "i", "n", "g", ",", " ", "L", "i", "c", "e", "n", "s", "e">>,
         600, TRUE, <<>>)

ReadmeParts ==
    {Part({}, {}), Part({ReadmeShort}, {}), Part({ReadmeFile}, {}),
     Part({ReadmeComplete}, {})}

\* a Python file and the complexities cc_visit finds in it
PyFile(name, blocks) == File(name, <<>>, 0, TRUE, blocks)

PythonParts ==
    {Part({}, {}),
     Part({PyFile(<<"a", ".", "p", "y">>, <<>>)}, {}),
     Part({PyFile(<<"a", ".", "p", "y">>, <<1>>)}, {}),
     Part({PyFile(<<"a", ".", "p", "y">>, <<5>>)}, {}),
     Part({PyFile(<<"a", ".", "p", "y">>, <<5>>)}, {PyFile(<<"b", ".", "p", "y">>, <<11>>)}),
     Part({PyFile(<<"a", ".", "p", "y">>, <<7, 10>>)}, {}),
     Part({PyFile(<<"a", ".", "p", "y">>, <<10, 10, 10, 11, 11>>)}, {}),
     Part({PyFile(<<"a", ".", "p", "y">>, <<20>>)}, {}),
     Part({PyFile(<<"a", ".", "p", "y">>, <<30>>)}, {PyFile(<<"b", ".", "p", "y">>, <<25>>)}),
     Part({File(<<"a", ".", "p", "y">>, <<>>, 0, FALSE, <<>>)}, {PyFile(<<"b", ".", "p", "y">>, <<1>>)})}

DeployParts ==
    {Part({}, {}),
     Part({PlainFile(<<"D", "o", "c", "k", "e", "r", "f", "i", "l", "e">>)}, {}),
     Part({PlainFile(<<"D", "o", "c", "k", "e", "r", "f", "i", "l", "e">>)}, {PlainFile(<<"D", "o", "c", "k", "e", "r", "f", "i", "l", "e">>)}),
     Part({}, {PlainFile(<<"m", "a", "i", "n", ".", "t", "f">>)}),
     Part({PlainFile(<<"r", "e", "q", "u", "i", "r", "e", "m", "e", "n", "t", "s", ".", "t", "x", "t">>)}, {PlainFile(<<"r", "e", "q", "u", "i", "r", "e", "m", "e", "n", "t", "s", ".", "t", "x", "t">>)}),
     Part({PlainFile(<<"D", "o", "c", "k", "e", "r", "f", "i", "l", "e">>), PlainFile(<<"d", "o", "c", "k", "e", "r", "-", "c", "o", "m", "p", "o", "s", "e", ".", "y", "m", "l">>),
           PlainFile(<<"p", "a", "c", "k", "a", "g", "e", ".", "j", "s", "o", "n">>)},
          {PlainFile(<<"D", "o", "c", "k", "e", "r", "f", "i", "l", "e">>), PlainFile(<<"m", "a", "i", "n", ".", "t", "f">>)})}

\* the clone made of one part of each kind
CloneOf(r, py, d) ==
    [q \in {Root, GitDir, DirInfra} |->
        CASE q = Root -> r.at_root \cup py.at_root \cup d.at_root
          [] q = GitDir -> GitFiles
          [] OTHER -> r.in_infra \cup py.in_infra \cup d.in_infra]

CloneTrees ==
    {CloneOf(r, py, d) : r \in ReadmeParts, py \in PythonParts,
                         d \in DeployParts}

\* answers of the model behind LocalLLM.analyze_readme, Responses and more
ReadmeResponses ==
    Responses
    \cup {LlmDict(TRUE, 95, TRUE, <<NoteClear>>, <<>>),
          LlmDict(TRUE, 300, TRUE, <<NoteClear>>, <<>>),
          LlmDict(FALSE, 0, TRUE, <<NoteClear>>, <<>>)}

ReadmeCall(pick, response) == [pick |-> pick, response |-> response]

InitClone ==
    /\ pc = "readme"
    /\ tree \in CloneTrees
    /\ repo_language \in {"Python", "Go", None}
    /\ llm \in BOOLEAN
    /\ readme_call = Unset
    /\ readme = Unset
    /\ comp_score = Unset
    /\ sec_deploy = Unset
    /\ path = TempDir
    /\ test_score = Unset
    /\ prev_score = Unset
    /\ fetched = <<>>
    /\ languages_detected = {}
    /\ primary_language = "Unknown"
    /\ total_repos_analyzed = 0
    /\ llm_summary = Absent
    /\ LabelsIdle
    /\ CompositeIdle
    /\ ScoringIdle

\* lines 120-122
AnalyzeReadme ==
    /\ pc = "readme"
    /\ \E pick \in ReadmePicks(tree) :
       \E response \in IF llm /\ pick \in FileNames(tree, Root)
                       THEN ReadmeResponses ELSE {LlmNone} :
          /\ readme_call' = ReadmeCall(pick, response)
          /\ readme' = _analyze_readme(tree, pick, llm, response)
    /\ pc' = "complexity"
    /\ UNCHANGED <<score, labels, breakdown, composite_score, repositories,
                   hiring_readiness, role_scores, profileVars, testingVars,
                   repo_language, comp_score, sec_deploy>>

\* lines 140-145
AnalyzeComplexity ==
    /\ pc = "complexity"
    /\ comp_score' = IF repo_language = "Python"
                     THEN _analyze_complexity_python(tree) ELSE 50
    /\ pc' = "sec_deploy"
    /\ UNCHANGED <<score, labels, breakdown, composite_score, repositories,
                   hiring_readiness, role_scores, profileVars, testingVars,
                   repo_language, readme_call, readme, sec_deploy>>

\* lines 147-150
AnalyzeSecDeploy ==
    /\ pc = "sec_deploy"
    /\ sec_deploy' = _analyze_sec_deploy(tree)
    /\ pc' = "done"
    /\ UNCHANGED <<score, labels, breakdown, composite_score, repositories,
                   hiring_readiness, role_scores, profileVars, testingVars,
                   repo_language, readme_call, readme, comp_score>>

NextClone == AnalyzeReadme \/ AnalyzeComplexity \/ AnalyzeSecDeploy

SpecClone == InitClone /\ [][NextClone]_vars

(***************************************************************************)
(* Claims                                                                  *)
(***************************************************************************)

\* C2: for an empty repository list compute_hiring_readiness returns score 0,
\* tier "Not Ready" and its fixed tier_label, and compute_role_fit returns
\* score 0 and fit_label "Low Fit" for each of the three roles.
C2_EmptyProfileLowestTier ==
    (pc = "done" /\ repositories = <<>> /\ role_scores # Unset) =>
        /\ hiring_readiness =
             [score |-> 0, tier |-> "Not Ready",
              tier_label |-> "Foundational gaps; focus on fundamentals first"]
        /\ \A role \in RoleNames :
             role_scores.role_scores[role] = [score |-> 0, fit_label |-> "Low Fit"]

\* the weighted sum of a breakdown in hundredths, in exact integers
WeightedHundredths(bd) ==
    25 * bd.code_structure + 20 * bd.testing_ci + 15 * bd.readme
    + 15 * bd.project_value + 10 * bd.deployability + 8 * bd.complexity
    + 7 * bd.security

\* C3: for every breakdown with fields in 0..100 _calculate_composite returns
\* exactly the floor of the weighted sum (25, 20, 15, 15, 10, 8, 7 hundredths),
\* so 66 for {80, 100, 60, 40, 20, 50, 80}.
C3_CompositeIsFloorOfWeightedSum ==
    pc \in {"rating", "done"} =>
        composite_score = WeightedHundredths(breakdown) \div 100

\* C4: the rating is Exceptional from 85, Strong from 70, Solid from 55,
\* Needs Work from 40 and Weak below; the hiring tier has the same inclusive
\* lower bounds; each tier has its own fixed tier_label; 85 gives
\* Exceptional / Hire-Ready and 84 gives Strong / Competitive.
C4_RatingAndTierThresholds ==
    /\ labels.rating # "" =>
         \/ score >= 85 /\ labels.rating = "Exceptional"
         \/ 70 <= score /\ score < 85 /\ labels.rating = "Strong"
         \/ 55 <= score /\ score < 70 /\ labels.rating = "Solid"
         \/ 40 <= score /\ score < 55 /\ labels.rating = "Needs Work"
         \/ score < 40 /\ labels.rating = "Weak"
    /\ labels.tier # "" =>
         /\ \/ score >= 85 /\ labels.tier = "Hire-Ready"
            \/ 70 <= score /\ score < 85 /\ labels.tier = "Competitive"
            \/ 55 <= score /\ score < 70 /\ labels.tier = "Developing"
            \/ 40 <= score /\ score < 55 /\ labels.tier = "Early Stage"
            \/ score < 40 /\ labels.tier = "Not Ready"
         /\ labels.tier_label # ""
         /\ \A s \in (-ScoreBelow)..ScoreMax :
              (get_tier_label(HiringTier(s)) = labels.tier_label)
                  <=> (HiringTier(s) = labels.tier)
    /\ (score = 84 /\ labels.rating # "") => labels.rating = "Strong"
    /\ (score = 84 /\ labels.tier # "") => labels.tier = "Competitive"

C4_Witness ==
    /\ pc = "labels"
    /\ score = 85
    /\ labels.rating = "Exceptional"
    /\ labels.tier = "Hire-Ready"
    /\ labels.tier_label = "Strong candidate; portfolio speaks for itself"

FlaggedRepos(repos) ==
    {i \in 1..Len(repos) : repos[i].critical_flags # <<>>}

\* C5: the security baseline of compute_hiring_readiness is
\* max(0, 100 - 20 * k), k the number of repositories with a non-empty
\* critical_flags list, whatever the number of flags in one repository, and 0
\* from five flagged repositories on.
C5_SecurityBaselinePerFlaggedRepository ==
    hiring_readiness # Unset =>
        LET k == Cardinality(FlaggedRepos(repositories))
        IN  /\ security_baseline(repositories) = Max(0, 100 - 20 * k)
            /\ k >= 5 => security_baseline(repositories) = 0

C5_Witness ==
    /\ hiring_readiness # Unset
    /\ Cardinality(FlaggedRepos(repositories)) >= 6
    /\ \E i \in 1..Len(repositories) : Len(repositories[i].critical_flags) = 2
    /\ \E i \in 1..Len(repositories) : Len(repositories[i].critical_flags) = 1
    /\ security_baseline(repositories) = 0

\* numerator and denominator of the weighted sum of the readiness formula in
\* exact integers: 100 * n * k is the common denominator of n repositories and
\* the k best of them
ReadinessNumerator(repos) ==
    LET scores == [i \in 1..Len(repos) |-> repos[i].composite_score]
        n      == Len(repos)
        best   == Take(SortedDesc(scores), 3)
        k      == Len(best)
        langs  == {repos[i].language : i \in 1..n} \ {None}
    IN  35 * SumSeq(scores) * k
        + 25 * SumSeq(best) * n
        + 15 * Min(100, 20 * Cardinality(langs)) * n * k
        + 10 * 100 * CountPositive(repos, "testing_ci") * k
        + 10 * 100 * CountPositive(repos, "deployability") * k
        + 5 * Max(0, 100 - 20 * Cardinality(FlaggedRepos(repos))) * n * k

ReadinessDenominator(repos) == 100 * Len(repos) * Min(3, Len(repos))

\* C6: for a non-empty repository list the readiness score is the truncation of
\* 0.35 * mean + 0.25 * mean of the three best + 0.15 * min(100, 20 * languages)
\* + 0.10 * testing presence + 0.10 * deployability presence
\* + 0.05 * security baseline.
C6_ReadinessIsTruncatedWeightedSum ==
    (hiring_readiness # Unset /\ repositories # <<>>) =>
        hiring_readiness.score =
            ReadinessNumerator(repositories) \div ReadinessDenominator(repositories)

FitLabels == {"High Fit", "Moderate Fit", "Low Fit"}

\* C7: a role's fit label is High Fit exactly above 80, Moderate Fit exactly
\* above 50 and up to 80, Low Fit up to 50, and every role of a non-empty
\* repository list carries one of the three.
C7_FitLabelStrictBounds ==
    (role_scores # Unset /\ repositories # <<>>) =>
        \A role \in RoleNames :
            LET r == role_scores.role_scores[role]
            IN  /\ r.fit_label \in FitLabels
                /\ r.fit_label = "High Fit" <=> r.score > 80
                /\ r.fit_label = "Moderate Fit" <=> (50 < r.score /\ r.score <= 80)
                /\ r.fit_label = "Low Fit" <=> r.score <= 50
                /\ r.score = 81 => r.fit_label = "High Fit"
                /\ r.score = 80 => r.fit_label = "Moderate Fit"
                /\ r.score = 51 => r.fit_label = "Moderate Fit"
                /\ r.score = 50 => r.fit_label = "Low Fit"

C7_Witness ==
    /\ role_scores # Unset
    /\ repositories # <<>>
    /\ role_scores.role_scores.backend_engineer = [score |-> 81, fit_label |-> "High Fit"]

C7_WitnessAt80 ==
    /\ role_scores # Unset
    /\ role_scores.role_scores.ml_engineer = [score |-> 80, fit_label |-> "Moderate Fit"]

C7_WitnessAt51 ==
    /\ role_scores # Unset
    /\ role_scores.role_scores.backend_engineer = [score |-> 51, fit_label |-> "Moderate Fit"]

C7_WitnessAt50 ==
    /\ role_scores # Unset
    /\ role_scores.role_scores.ml_engineer = [score |-> 50, fit_label |-> "Low Fit"]

\* every field of a breakdown is in 0..100
BreakdownInRange(bd) == \A f \in BreakdownFields : bd[f] \in 0..100

\* C1: in every profile analyze_profile produces, the seven breakdown fields
\* and the composite score of every repository, the hiring-readiness score
\* and the three role scores are in 0..100.
C1_AllScoresInRange ==
    /\ \A i \in 1..Len(repositories) :
          /\ BreakdownInRange(repositories[i].score_breakdown)
          /\ repositories[i].composite_score \in 0..100
    /\ pc = "done" =>
          /\ hiring_readiness.score \in 0..100
          /\ \A role \in RoleNames :
                role_scores.role_scores[role].score \in 0..100

\* C8: for a tree without a test directory and without a file whose name
\* contains "test", _analyze_testing returns no less after a directory named
\* tests has been added anywhere in the tree than it returned before.
C8_TestsDirNeverLowersScore ==
    pc = "reanalyzed" => test_score >= prev_score

C8_Witness ==
    /\ pc = "reanalyzed"
    /\ prev_score = 40
    /\ test_score = 80
    /\ Len(path) = Len(RepoPath(<<"d", "e", "m", "o">>))

C8_WitnessFromZero ==
    pc = "reanalyzed" /\ prev_score = 0 /\ test_score = 40

\* the repositories of fetched that are not forks, in fetch order
NonForks == SelectSeq(fetched, LAMBDA f : ~f.repo.fork)

\* C9: whatever the profile source yields and whichever clones and provider
\* calls fail, analyze_profile is never left by an exception, and it ends
\* with one analysis per repository that is no fork, in fetch order, with
\* hiring_readiness and role_scores computed.
C9_NoFailureAbortsTheProfile ==
    /\ pc # "raised"
    /\ pc = "done" =>
          /\ Len(repositories) = Len(NonForks)
          /\ \A i \in 1..Len(repositories) :
                repositories[i].repo_name = NonForks[i].repo.name
          /\ hiring_readiness # Unset
          /\ role_scores # Unset

\* C10 as stated: the analysis of a repository whose clone failed has all
\* seven breakdown fields equal to 0 and the clone-failed flag.
C10_CloneFailureAllZero ==
    \A i \in 1..Len(repositories) :
        NonForks[i].clone = "failed" =>
            /\ repositories[i].score_breakdown = ZeroBreakdown
            /\ CloneFailedFlag \in SeqToSet(repositories[i].critical_flags)

\* C10 amended: the analysis of a repository whose clone failed has the seven
\* breakdown fields, the six computed from the clone equal to 0 and
\* project_value equal to min(100, 2 * stars + 5 * forks), and its
\* critical_flags contains the clone-failed flag.
C10_CloneFailureZeroButProjectValue ==
    \A i \in 1..Len(repositories) :
        NonForks[i].clone = "failed" =>
            /\ DOMAIN repositories[i].score_breakdown = BreakdownFields
            /\ repositories[i].score_breakdown =
                  [ZeroBreakdown EXCEPT !.project_value =
                      Min(100, 2 * NonForks[i].repo.stars
                               + 5 * NonForks[i].repo.forks)]
            /\ CloneFailedFlag \in SeqToSet(repositories[i].critical_flags)

C10_Witness ==
    \E i \in 1..Len(repositories) :
        /\ NonForks[i].clone = "failed"
        /\ repositories[i].score_breakdown.project_value = 100
        /\ pc = "done"

\* the README that _analyze_readme read
ReadmeRead == CHOOSE f \in tree[Root] : f.name = readme_call.pick

\* the provider is configured and its answer carries a score
ProviderAnswered ==
    /\ llm
    /\ readme_call.response.kind = "dict"
    /\ readme_call.response.score_is_number

\* C11: for a repository with a README, the readme sub-score is the average
\* of the heuristic score and the provider's score clamped to 0..100, with
\* the provider's strengths and weaknesses as notes, when the provider
\* answers; it is the heuristic score with no notes when the provider is
\* absent, returns nothing or fails.
C11_ReadmeAverageOrHeuristic ==
    (pc \in {"complexity", "sec_deploy", "done"}
        /\ readme_call.pick # NoneStr) =>
        IF ProviderAnswered
        THEN /\ readme.score =
                   Max(0, Min(100, (ReadmeHeuristic(ReadmeRead)
                                    + readme_call.response.score) \div 2))
             /\ readme.strengths = readme_call.response.strengths
             /\ readme.weaknesses = readme_call.response.weaknesses
        ELSE /\ readme.score = ReadmeHeuristic(ReadmeRead)
             /\ ~readme.notes
             /\ readme.strengths = <<>>
             /\ readme.weaknesses = <<>>


\* the most frequent language, the earliest in repository order among
\* those that tie
RECURSIVE FirstMostFrequent(_, _)
FirstMostFrequent(langs, rest) ==
    IF rest = <<>> THEN "Unknown"
    ELSE IF \A k \in SeqToSet(langs) : Count(langs, k) <= Count(langs, Head(rest))
         THEN Head(rest)
         ELSE FirstMostFrequent(langs, Tail(rest))

\* C12: after analyze_profile, primary_language is the most frequent
\* non-null language of the analysed repositories, the first encountered
\* in repository order when several tie, and "Unknown" when no analysed
\* repository has a language
C12_PrimaryLanguageFirstOfTies ==
    pc = "done" =>
        primary_language = FirstMostFrequent(Languages(repositories),
                                             Languages(repositories))

\* the profile in which the rule of C12 and the code part: two languages
\* tie and the later one is reported
C12_TieReportsLater ==
    /\ pc = "done"
    /\ Len(Languages(repositories)) = 2
    /\ primary_language = Languages(repositories)[2]
    /\ primary_language # Languages(repositories)[1]

\* C13: the testing_ci score of _analyze_testing is one of 0, 20, 40 or 80
C13_TestingScoreOneOfFour ==
    pc \in {"analyzed", "reanalyzed"} => test_score \in {0, 20, 40, 80}

\* C13, amended: the score is one of 0, 20, 40, 60 or 80, the sum of a first
\* pass worth 0, 20 or 40 and of a second pass worth 0 or 40; 60 is a file
\* name containing "test" together with a CI signal
C13_TestingScoreOneOfFive ==
    pc \in {"analyzed", "reanalyzed"} =>
        /\ test_score \in {0, 20, 40, 60, 80}
        /\ test_score = 60 =>
              /\ \E pf \in AllFiles(tree) : Contains(StrTest, Lower(pf[2].name))
              /\ \E pf \in AllFiles(tree) :
                    \/ pf[2].name \in SeqToSet(config_files)
                    \/ Contains(StrGithub, PathStr(path, pf[1]))

\* a test file at the root and a CI marker elsewhere: 20 + 40
C13_Witness ==
    /\ pc = "analyzed"
    /\ test_score = 60
    /\ \E f \in tree[Root] : Contains(StrTest, Lower(f.name))
    /\ \A f \in tree[Root] : f.name \notin SeqToSet(config_files)
    /\ ~Contains(StrGithub, PathStr(path, Root))

\* the complexity sub-score as a function of the exact average
\* total_cc / file_count: 100 up to 5, 0 from 20, and the integer part of
\* 100 - (avg_cc - 5) * 100 / 15 = (2000 * file_count - 100 * total_cc) /
\* (15 * file_count) in between
LinearComplexity(total_cc, file_count) ==
    IF total_cc <= 5 * file_count THEN 100
    ELSE IF total_cc >= 20 * file_count THEN 0
    ELSE (2000 * file_count - 100 * total_cc) \div (15 * file_count)

FunctionsFound ==
    /\ repo_language = "Python"
    /\ \A pf \in PyFiles(tree) : pf[2].parses
    /\ BlockCount(PyFiles(tree)) > 0

\* C14: for a clone whose language is "Python" and in which a function is
\* found, the complexity sub-score is 100 for an average complexity of at
\* most 5, 0 for one of at least 20 and the truncated line in between; it
\* is 50 when no function is found, when the analysis raises and for every
\* other or missing language
C14_ComplexityPiecewiseLinear ==
    pc \in {"sec_deploy", "done"} =>
        comp_score = IF FunctionsFound
                     THEN LinearComplexity(TotalCc(PyFiles(tree)),
                                           BlockCount(PyFiles(tree)))
                     ELSE 50

\* the occurrences of marker files in the clone: a file is a directory and
\* a name, so one name in two directories is two occurrences
MarkerFiles == {pf \in AllFiles(tree) : pf[2].name \in SeqToSet(deploy_files)}

DockerFiles == {pf \in AllFiles(tree) : pf[2].name = StrDockerfile}

TerraformFiles == {pf \in AllFiles(tree) : EndsWith(pf[2].name, ExtTf)}

\* C15: the deployability sub-score is min(100, 20*m + 30*d + 30*t) with m
\* the occurrences of deploy-marker names anywhere in the tree, d the
\* occurrences of Dockerfile and t the occurrences of names ending in .tf;
\* the security sub-score returned with it is 80
C15_DeployabilityPerOccurrence ==
    pc = "done" =>
        /\ sec_deploy.deploy_score =
              Min(100, 20 * Cardinality(MarkerFiles)
                       + 30 * Cardinality(DockerFiles)
                       + 30 * Cardinality(TerraformFiles))
        /\ sec_deploy.sec_score = 80

\* one marker name in two directories, counted twice and below the clamp
C15_Witness ==
    /\ pc = "done"
    /\ \E pf, pg \in MarkerFiles : pf[1] # pg[1] /\ pf[2].name = pg[2].name
    /\ sec_deploy.deploy_score = 40

\* C16: after analyze_profile, languages_detected holds the distinct
\* languages of the analysed repositories that have one: nothing for a
\* repository without a language and nothing for a skipped fork
C16_LanguagesDistinctNonNull ==
    pc = "done" =>
        languages_detected =
            {NonForks[i].repo.language : i \in 1..Len(NonForks)} \ {None}

\* the description of r is present and names one of the keywords
Mentions(r, keywords) ==
    /\ r.description # NoneStr
    /\ \E i \in 1..Len(keywords) : Contains(keywords[i], Lower(r.description))

Bonus(condition, points) == IF condition THEN points ELSE 0

\* what one repository adds to each role: ml points, backend points in
\* tenths and sre points in halves, so that all three are integers
MlPoints(r) ==
    Bonus(r.language \in {"Python", "Jupyter Notebook"}, 10)
    + Bonus(Mentions(r, ml_keywords), 15)

BackendTenths(r) ==
    Bonus(r.language \in be_languages, 100)
    + Bonus(Mentions(r, be_keywords), 150)
    + r.score_breakdown.code_structure

SreHalves(r) ==
    Bonus(Mentions(r, sre_keywords), 40) + r.score_breakdown.deployability

\* C17: for a non-empty repository list, ml_engineer is min(100, sum of 10
\* for a Python or Jupyter Notebook language and 15 for an ML keyword),
\* backend_engineer is min(100, trunc(sum of 10 for a backend language, 15
\* for a backend keyword and code_structure / 10)) and sre is min(100,
\* trunc(sum of 20 for an SRE keyword and deployability / 2)); an absent
\* description gives no keyword bonus
C17_RoleFitSums ==
    (pc = "done" /\ repositories # <<>>) =>
        LET n == Len(repositories)
            roles == role_scores.role_scores
        IN  /\ roles.ml_engineer.score =
                  Min(100, SumSeq([i \in 1..n |-> MlPoints(repositories[i])]))
            /\ roles.backend_engineer.score =
                  Min(100, SumSeq([i \in 1..n |->
                                      BackendTenths(repositories[i])]) \div 10)
            /\ roles.sre.score =
                  Min(100, SumSeq([i \in 1..n |->
                                      SreHalves(repositories[i])]) \div 2)

\* a list whose backend sum passes 100 before the clamp, with a repository
\* that has no description and no language and still adds its structure
\* bonus
C17_Witness ==
    /\ pc = "done"
    /\ repositories # <<>>
    /\ \E i \in 1..Len(repositories) :
          /\ repositories[i].description = NoneStr
          /\ repositories[i].language = None
          /\ repositories[i].score_breakdown.code_structure > 0
    /\ SumSeq([i \in 1..Len(repositories) |->
                  BackendTenths(repositories[i])]) > 1000
    /\ role_scores.role_scores.backend_engineer.score = 100

\* every analysed repository of the profile failed to clone, and there is
\* at least one
AllClonesFailed ==
    /\ repositories # <<>>
    /\ Len(NonForks) = Len(repositories)
    /\ \A i \in 1..Len(NonForks) : NonForks[i].clone = "failed"

\* C18: when every analysed repository of a non-empty profile failed to
\* clone, whatever its stars, forks and language, each composite_score is at
\* most 15 with rating Weak, and the hiring-readiness score is below 40 with
\* tier Not Ready
C18_AllClonesFailedNotReady ==
    AllClonesFailed =>
        /\ \A i \in 1..Len(repositories) :
              /\ repositories[i].composite_score <= 15
              /\ repositories[i].rating = "Weak"
        /\ pc = "done" =>
              /\ hiring_readiness.score < 40
              /\ hiring_readiness.tier = "Not Ready"

\* a finished profile of failed clones only, one of them a repository whose
\* stars and forks give the full project value and so the composite 15
C18_Witness ==
    /\ pc = "done"
    /\ AllClonesFailed
    /\ \E i \in 1..Len(repositories) :
          /\ NonForks[i].repo.stars * 2 + NonForks[i].repo.forks * 5 > 100
          /\ repositories[i].composite_score = 15
    /\ hiring_readiness.score > 0
=============================================================================
